---- MODULE Spec2Model ----
(***************************************************************************)
(* Model of githubadvancesecurity/get_repos.py: the multi-organization     *)
(* repository security-status report.  main() resolves the GitHub token,   *)
(* loads organizations.json, lists every enabled organization's            *)
(* repositories page by page, checks code scanning for each repository,    *)
(* renders one HTML report (fetching branches and both scan statuses per   *)
(* repository while rendering) and mails it.                               *)
(*                                                                         *)
(* Text is modelled as a sequence of string tokens, so that formatting     *)
(* (f-strings, ", ".join, str()) is computed and not assumed.              *)
(***************************************************************************)
EXTENDS Integers, Sequences, FiniteSets, TLC

(***************************************************************************)
(* Bounds of the model.                                                    *)
(***************************************************************************)
MaxOrgs == 2          \* entries of organizations.json
MaxPages == 3         \* non-empty pages the hosting API serves per organization
MaxPageLen == 3       \* repositories on one served page
MaxRepos == 1         \* repositories the hosting API holds in a run of main
MaxAlerts == 3        \* alerts in one scan response (SpecScan)
MaxRenderRepos == 2   \* repositories in a list rendered once (SpecRender)
MaxTwiceRepos == 1    \* repositories in a list rendered twice (SpecRender)

(***************************************************************************)
(* Program constants.                                                      *)
(***************************************************************************)
PerPage == 100                     \* per_page of the repository listing
NotFound == 404                    \* the status that means "scanning not enabled"
Recipient == "schaskar.ml@gmail.com"
Subject == "GitHub Repositories and Branches Report"
VaultUrl == "https://vault.example"
Timestamp == "2026-01-01 00:00:00" \* datetime.now() formatted, held fixed in a run

(***************************************************************************)
(* Text helpers.                                                           *)
(***************************************************************************)
\* str(n)
Str(n) == ToString(n)

\* sep.join(parts), parts a sequence of strings, as a sequence of tokens
RECURSIVE Join(_, _)
Join(sep, parts) ==
    IF Len(parts) = 0 THEN <<>>
    ELSE IF Len(parts) = 1 THEN <<parts[1]>>
    ELSE <<parts[1], sep>> \o Join(sep, Tail(parts))

\* concatenation of a sequence of sequences
RECURSIVE Flatten(_)
Flatten(ss) == IF ss = <<>> THEN <<>> ELSE Head(ss) \o Flatten(Tail(ss))

(***************************************************************************)
(* Responses of the hosting API as requests.get sees them: either the      *)
(* call raises a transport error (no response), or a response with a       *)
(* status and a decoded JSON body (a list) arrives.                        *)
(***************************************************************************)
Http(s, b) == [transport |-> "ok", status |-> s, body |-> b]
NetErr(c) == [transport |-> c, status |-> 0, body |-> <<>>]

\* Outcome of a Python call: a value, or a raised exception with its str()
Ret(v) == [raised |-> FALSE, exc |-> "", text |-> <<>>, value |-> v]
Raise(cls, txt) == [raised |-> TRUE, exc |-> cls, text |-> txt, value |-> <<>>]

\* requests.get(url): raises the transport error, else returns the response
requests_get(resp) ==
    IF resp.transport # "ok"
    THEN Raise(resp.transport, <<resp.transport>>)
    ELSE Ret(resp)

\* Response.raise_for_status(): HTTPError for 4xx and 5xx
raise_for_status(resp) ==
    IF resp.status >= 400 /\ resp.status < 600
    THEN Raise("HTTPError", <<Str(resp.status), " Error">>)
    ELSE Ret(resp)

(***************************************************************************)
(* Exception classes of the requests library: the except clauses of the    *)
(* scan checks catch requests.exceptions.RequestException only.            *)
(***************************************************************************)
RequestExceptions == {"HTTPError", "ConnectionError", "Timeout"}
IsRequestException(cls) == cls \in RequestExceptions

\* GitHubRepoFetcher.get_branches: one request, raise_for_status, the JSON list
get_branches(resp) ==
    LET g == requests_get(resp) IN
    IF g.raised THEN g
    ELSE LET r == raise_for_status(resp) IN
         IF r.raised THEN r ELSE Ret(resp.body)

\* The ScanStatus dictionaries the two checks return
ScanStatus(e, n, m) == [enabled |-> e, alerts_count |-> n, message |-> m]

\* try-body of check_code_scanning_status / check_secret_scanning_status
ScanTryMutNo404(Kind, resp) ==
    LET g == requests_get(resp) IN
    IF g.raised THEN g
    ELSE LET r == raise_for_status(resp) IN
         IF r.raised THEN r
         ELSE Ret(ScanStatus(TRUE, Len(resp.body),
                  <<Kind, " scanning is enabled with ", Str(Len(resp.body)), " alerts">>))
ScanTryMutCount(Kind, resp) ==
    LET g == requests_get(resp) IN
    IF g.raised THEN g
    ELSE IF resp.status = NotFound
    THEN Ret(ScanStatus(FALSE, 0, <<Kind, " scanning is not enabled">>))
    ELSE LET r == raise_for_status(resp) IN
         IF r.raised THEN r
         ELSE Ret(ScanStatus(Len(resp.body) > 0, Len(resp.body),
                  <<Kind, " scanning is enabled with ", Str(Len(resp.body)), " alerts">>))
ScanTry(Kind, resp) ==
    LET g == requests_get(resp) IN
    IF g.raised THEN g
    ELSE IF resp.status = NotFound
    THEN Ret(ScanStatus(FALSE, 0, <<Kind, " scanning is not enabled">>))
    ELSE LET r == raise_for_status(resp) IN
         IF r.raised THEN r
         ELSE Ret(ScanStatus(TRUE, Len(resp.body),
                  <<Kind, " scanning is enabled with ", Str(Len(resp.body)), " alerts">>))

\* except requests.exceptions.RequestException as e: the negative ScanStatus
ScanExceptMutHttpOnly(kind, out) ==
    IF out.raised /\ out.exc = "HTTPError"
    THEN Ret(ScanStatus(FALSE, 0,
             <<"Error checking ", kind, " scanning status: ">> \o out.text))
    ELSE out
ScanExcept(kind, out) ==
    IF out.raised /\ IsRequestException(out.exc)
    THEN Ret(ScanStatus(FALSE, 0,
             <<"Error checking ", kind, " scanning status: ">> \o out.text))
    ELSE out

check_code_scanning_status(resp) == ScanExcept("code", ScanTry("Code", resp))
check_secret_scanning_status(resp) == ScanExcept("secret", ScanTry("Secret", resp))

\* check_scan_status(R, kind) of the specification: the check of that kind
check_scan_status(kind, resp) ==
    IF kind = "code" THEN check_code_scanning_status(resp)
    ELSE check_secret_scanning_status(resp)

(***************************************************************************)
(* Repository records of the hosting API and the requests sent to it.      *)
(***************************************************************************)
\* the k-th repository of organization o, as the listing returns it
RepoRecord(o, k) ==
    [full_name |-> <<Str(o), "/", Str(k)>>,
     name |-> Str(k),
     html_url |-> <<"https://github.com/", Str(o), "/", Str(k)>>]

\* GET {url}?page={page}&per_page=100 of get_org_repositories
ListRequest(o, p) ==
    [endpoint |-> "orgs/repos", owner |-> Str(o), repo |-> <<>>,
     page |-> p, per_page |-> PerPage]

\* GET https://api.github.com/repos/{repo_full_name}/{endpoint}
RepoRequest(endpoint, full_name) ==
    [endpoint |-> endpoint, owner |-> full_name[1], repo |-> full_name,
     page |-> 0, per_page |-> 0]

(***************************************************************************)
(* One iteration of the row loop of generate_html_report: the try body     *)
(* (branches, code scanning, secret scanning), the except Exception        *)
(* placeholder, and the row appended to the document.                      *)
(***************************************************************************)
StatusClass(status) == IF status.enabled THEN "badge-green" ELSE "badge-red"

StatusText(status) ==
    IF status.enabled
    THEN status.message \o <<" (", Str(status.alerts_count), " alerts)">>
    ELSE status.message

Row(repo, branch_list, cc, ct, sc, st) ==
    [name |-> repo.name, html_url |-> repo.html_url, branch_list |-> branch_list,
     code_status_class |-> cc, code_status_text |-> ct,
     secret_status_class |-> sc, secret_status_text |-> st]

PlaceholderRow(repo) ==
    Row(repo, <<"Error fetching branches">>,
        "badge-gray", <<"Error checking status">>,
        "badge-gray", <<"Error checking status">>)

\* the try body of the row loop, given the API's answers to its requests
RowTry(repo, bresp, cresp, sresp) ==
    LET branches == get_branches(bresp)
        code == check_code_scanning_status(cresp)
        secret == check_secret_scanning_status(sresp)
    IN  IF branches.raised THEN branches
        ELSE IF code.raised THEN code
        ELSE IF secret.raised THEN secret
        ELSE Ret(Row(repo, Join(", ", branches.value),
                     StatusClass(code.value), StatusText(code.value),
                     StatusClass(secret.value), StatusText(secret.value)))

\* except Exception as e: the placeholder row
RowExceptMutNone(repo, out) == out
RowExcept(repo, out) == IF out.raised THEN Ret(PlaceholderRow(repo)) ELSE out

RenderRowOf(repo, bresp, cresp, sresp) ==
    RowExcept(repo, RowTry(repo, bresp, cresp, sresp))

\* the requests that iteration sends: the try body stops at the first raise
RowRequests(repo, bresp, cresp) ==
    <<RepoRequest("branches", repo.full_name)>>
    \o (IF get_branches(bresp).raised THEN <<>>
        ELSE <<RepoRequest("code-scanning/alerts", repo.full_name)>>
             \o (IF check_code_scanning_status(cresp).raised THEN <<>>
                 ELSE <<RepoRequest("secret-scanning/alerts", repo.full_name)>>))

(***************************************************************************)
(* SecretManager.get_secret and send_email_report.                         *)
(***************************************************************************)
\* the secret store's answer to one get_secret call
SecretAnswer(ok, v) == [ok |-> ok, value |-> v]

get_secret(secret_name, ans) ==
    IF ans.ok THEN Ret(ans.value)
    ELSE Raise("ValueError",
               <<"Failed to retrieve secret ", secret_name, ": ", "unauthorized">>)

\* the steps of send_email_report that can fail, in program order
SendStages ==
    <<"email-user", "email-password", "connect", "starttls", "login",
      "send_message", "quit">>

StageIndex(stage) == CHOOSE n \in 1..Len(SendStages) : SendStages[n] = stage

\* the body of the try of send_email_report when `failing` is the step that
\* raises ("none": no step raises)
SendTry(failing) ==
    IF failing = "none" THEN Ret(<<>>)
    ELSE IF failing \in {"email-user", "email-password"}
    THEN get_secret(failing, SecretAnswer(FALSE, ""))
    ELSE Raise("SMTPException", <<failing, " failed">>)

\* whether server.send_message(msg) completed before the failing step
Submitted(failing) ==
    failing = "none" \/ StageIndex(failing) > StageIndex("send_message")

\* except Exception as e: print, nothing propagates
SendExceptMutSmtpOnly(out) ==
    IF out.raised /\ out.exc = "SMTPException" THEN Ret(<<>>) ELSE out
SendExcept(out) == IF out.raised THEN Ret(<<>>) ELSE out

send_email_report(failing) == SendExcept(SendTry(failing))

SendPrint(failing, recipient_email) ==
    IF SendTry(failing).raised
    THEN <<"Failed to send email: ">> \o SendTry(failing).text
    ELSE <<"Report sent successfully to ", recipient_email>>

(***************************************************************************)
(* The answers the environment can give.                                   *)
(***************************************************************************)
\* a JSON list of n alerts
Alerts(n) == [a \in 1..n |-> "alert"]

\* answers of the hosting API to a scan request during a run
ScanResponses ==
    {Http(NotFound, <<>>), Http(200, Alerts(2)), Http(500, <<>>),
     NetErr("ConnectionError")}

\* answers to a branch listing during a run
BranchResponses ==
    {Http(200, <<"main", "dev">>), Http(500, <<>>), NetErr("ConnectionError")}

\* answers to a repository-listing page request that make it fail
ListFailures == {Http(500, <<>>), Http(403, <<>>), NetErr("ConnectionError")}

\* every answer class of a scan request (unit specification)
ErrorStatuses == {400, 401, 403, 500, 502, 503}
AllScanResponses ==
    {Http(200, Alerts(n)) : n \in 0..MaxAlerts}
    \cup {Http(NotFound, <<>>)}
    \cup {Http(st, <<>>) : st \in ErrorStatuses}
    \cup {NetErr("ConnectionError"), NetErr("Timeout")}

\* entries of organizations.json: the 'enabled' key may be absent
OrgEntry(o) ==
    {[name |-> o, has_enabled |-> TRUE, enabled |-> TRUE],
     [name |-> o, has_enabled |-> TRUE, enabled |-> FALSE],
     [name |-> o, has_enabled |-> FALSE, enabled |-> FALSE]}

\* organization lists: the n-th entry is organization n
OrgLists ==
    UNION {{f \in [1..n -> UNION {OrgEntry(o) : o \in 1..n}] :
               \A o \in 1..n : f[o].name = o} : n \in 0..MaxOrgs}

\* org.get('enabled', True)
OrgEnabledMutAll(org) == TRUE
OrgEnabled(org) == IF org.has_enabled THEN org.enabled ELSE TRUE

NoHtml == [total |-> "", timestamp |-> "", rows |-> <<>>]
NoCall == [kind |-> "", repo |-> <<>>, resp |-> NetErr(""), out |-> Ret(<<>>)]

(***************************************************************************)
(* State.                                                                  *)
(***************************************************************************)
VARIABLES
    pc,            \* position of main()
    vault_url,     \* AZURE_KEYVAULT_URL of the environment ("" when unset)
    org_file,      \* organizations.json: whether it exists, and its list
    hosted,        \* how many repositories the hosting API holds
    token,         \* GitHubRepoFetcher.token
    orgs,          \* org_data.get('organizations', [])
    i,             \* index of the organization the for loop of main is at
    page,          \* get_org_repositories: page
    repositories,  \* get_org_repositories: repositories
    org_repos,     \* main: org_repos
    j,             \* index of the repository an inner loop is at
    all_repos,     \* main: all_repos
    html,          \* generate_html_report: the document built so far
    printed,       \* the last line written to standard output
    mailbox,       \* messages the SMTP server accepted
    reqlog,        \* requests sent to the hosting API, in order
    served,        \* per organization, the non-empty pages served to its listing
    listed,        \* organizations whose listing returned
    last,          \* the latest scan check: kind, repository, answer, outcome
    answers,       \* per rendered row, the API's answers to its requests
    sent,          \* outcome of send_email_report ("" before it ran)
    calls,         \* render specification: calls of generate_html_report made
    prev           \* render specification: result of the first call

vars ==
    <<pc, vault_url, org_file, hosted, token, orgs, i, page, repositories, org_repos, j,
      all_repos, html, printed, mailbox, reqlog, served, listed, last, answers,
      sent, calls, prev>>

envVars == <<vault_url, org_file, hosted>>
listVars == <<page, repositories, served, listed>>
renderVars == <<html, answers>>
unitVars == <<calls, prev>>

\* the state of a fresh process, before main() runs
Fresh ==
    /\ token = ""
    /\ orgs = <<>>
    /\ i = 0
    /\ page = 0
    /\ repositories = <<>>
    /\ org_repos = <<>>
    /\ j = 0
    /\ html = NoHtml
    /\ printed = <<>>
    /\ mailbox = <<>>
    /\ reqlog = <<>>
    /\ served = <<>>
    /\ listed = {}
    /\ last = NoCall
    /\ answers = <<>>
    /\ sent = ""
    /\ calls = 0
    /\ prev = [html |-> NoHtml, answers |-> <<>>]

Init ==
    /\ pc = "construct"
    /\ vault_url \in {"", VaultUrl}
    /\ org_file \in [exists : BOOLEAN, organizations : OrgLists]
    /\ (~org_file.exists => org_file.organizations = <<>>)
    /\ hosted = MaxRepos
    /\ all_repos = <<>>
    /\ Fresh

\* except Exception as e: print(f"Error: {str(e)}") at the end of main
MainExcept(e) ==
    /\ printed' = <<"Error: ">> \o e.text
    /\ pc' = "done"

(***************************************************************************)
(* main, lines 356-357: GitHubRepoFetcher() with its SecretManager.        *)
(***************************************************************************)
TokenAnswers ==
    {SecretAnswer(FALSE, ""), SecretAnswer(TRUE, ""), SecretAnswer(TRUE, "ghp_token")}

\* SecretManager.__init__ and GitHubRepoFetcher.__init__
ConstructMutNoEmptyCheck(url, ans) ==
    IF url = ""
    THEN Raise("ValueError",
               <<"Azure Key Vault URL not found. Set AZURE_KEYVAULT_URL in environment variables.">>)
    ELSE get_secret("github-token", ans)
Construct(url, ans) ==
    IF url = ""
    THEN Raise("ValueError",
               <<"Azure Key Vault URL not found. Set AZURE_KEYVAULT_URL in environment variables.">>)
    ELSE LET t == get_secret("github-token", ans) IN
         IF t.raised THEN t
         ELSE IF t.value = ""
         THEN Raise("ValueError", <<"GitHub token not found in Key Vault">>)
         ELSE t

ConstructFetcher ==
    /\ pc = "construct"
    /\ \E ans \in TokenAnswers :
         LET f == Construct(vault_url, ans) IN
         IF f.raised
         THEN MainExcept(f) /\ UNCHANGED token
         ELSE /\ token' = f.value
              /\ pc' = "load_orgs"
              /\ UNCHANGED printed
    /\ UNCHANGED <<envVars, orgs, i, listVars, org_repos, j, all_repos, renderVars,
                   mailbox, reqlog, last, sent, unitVars>>

(***************************************************************************)
(* main, lines 360-367: organizations.json.                                *)
(***************************************************************************)
LoadOrgs ==
    /\ pc = "load_orgs"
    /\ IF ~org_file.exists
       THEN /\ MainExcept(Raise("FileNotFoundError", <<"organizations.json file not found">>))
            /\ UNCHANGED <<orgs, i, all_repos, served>>
       ELSE /\ orgs' = org_file.organizations
            /\ all_repos' = <<>>
            /\ i' = 1
            /\ served' = [o \in 1..Len(org_file.organizations) |-> <<>>]
            /\ pc' = "org_loop"
            /\ UNCHANGED printed
    /\ UNCHANGED <<envVars, token, page, repositories, listed, org_repos, j,
                   renderVars, mailbox, reqlog, last, sent, unitVars>>

(***************************************************************************)
(* main, lines 368-374: the loop over the organizations.                   *)
(***************************************************************************)
\* if not org.get('enabled', True): continue
SkipDisabled ==
    /\ pc = "org_loop"
    /\ i <= Len(orgs)
    /\ ~OrgEnabled(orgs[i])
    /\ i' = i + 1
    /\ UNCHANGED <<pc, envVars, token, orgs, listVars, org_repos, j, all_repos,
                   renderVars, printed, mailbox, reqlog, last, sent, unitVars>>

\* the call fetcher.get_org_repositories(org_name): lines 84-86
BeginListing ==
    /\ pc = "org_loop"
    /\ i <= Len(orgs)
    /\ OrgEnabled(orgs[i])
    /\ printed' = <<"Fetching repositories for organization: ", Str(orgs[i].name)>>
    /\ repositories' = <<>>
    /\ page' = 1
    /\ pc' = "listing"
    /\ UNCHANGED <<envVars, token, orgs, i, served, listed, org_repos, j, all_repos,
                   renderVars, mailbox, reqlog, last, sent, unitVars>>

(***************************************************************************)
(* get_org_repositories, lines 88-97: one iteration of the while loop.     *)
(***************************************************************************)
\* the page the API serves after k0 repositories: the next s of organization o
PageBody(o, k0, s) == [n \in 1..s |-> RepoRecord(o, k0 + n)]

\* the sizes of the page the API may serve now (the bounds cap the data)
PageSizes ==
    {0} \cup {s \in 1..MaxPageLen :
                 /\ Len(served[i]) < MaxPages
                 /\ Len(all_repos) + Len(repositories) + s <= hosted}

\* if not repos: break
LastPageMutShort(repos) == Len(repos) < PerPage
LastPage(repos) == repos = <<>>

\* repositories.extend(repos)
Extend(acc, repos) == acc \o repos

\* lines 89-90: the request of one page and raise_for_status
FetchPage(resp) ==
    LET g == requests_get(resp) IN
    IF g.raised THEN g ELSE raise_for_status(resp)

ListPage ==
    /\ pc = "listing"
    /\ reqlog' = Append(reqlog, ListRequest(orgs[i].name, page))
    /\ \E resp \in ListFailures \cup
                   {Http(200, PageBody(orgs[i].name, Len(repositories), s)) : s \in PageSizes} :
         LET r == FetchPage(resp) IN
         IF r.raised
         THEN /\ MainExcept(r)
              /\ UNCHANGED <<page, repositories, served, listed, org_repos, j>>
         ELSE /\ served' = IF resp.body = <<>> THEN served
                           ELSE [served EXCEPT ![i] = Append(@, resp.body)]
              /\ IF LastPage(resp.body)
                 THEN \* break; return repositories; lines 375 and 378 print
                      /\ org_repos' = repositories
                      /\ listed' = listed \cup {i}
                      /\ printed' = <<"Checking code scanning status for ",
                                      Str(orgs[i].name), " repositories:">>
                      /\ j' = 1
                      /\ pc' = "scan_loop"
                      /\ UNCHANGED <<page, repositories>>
                 ELSE /\ repositories' = Extend(repositories, resp.body)
                      /\ page' = page + 1
                      /\ UNCHANGED <<pc, printed, listed, org_repos, j>>
    /\ UNCHANGED <<envVars, token, orgs, i, all_repos, renderVars, mailbox, last,
                   sent, unitVars>>

(***************************************************************************)
(* main, lines 379-383: code scanning of each repository of the            *)
(* organization, then all_repos.extend(org_repos).                         *)
(***************************************************************************)
ScanCall(kind, repo, resp) ==
    [kind |-> kind, repo |-> repo.full_name, resp |-> resp,
     out |-> check_scan_status(kind, resp)]

ScanRepo ==
    /\ pc = "scan_loop"
    /\ j <= Len(org_repos)
    /\ reqlog' = Append(reqlog, RepoRequest("code-scanning/alerts", org_repos[j].full_name))
    /\ \E resp \in ScanResponses :
         LET status == check_code_scanning_status(resp) IN
         /\ last' = ScanCall("code", org_repos[j], resp)
         /\ IF status.raised
            THEN MainExcept(status) /\ UNCHANGED j
            ELSE /\ printed' = org_repos[j].full_name \o <<": ">> \o status.value.message
                 /\ j' = j + 1
                 /\ UNCHANGED pc
    /\ UNCHANGED <<envVars, token, orgs, i, listVars, org_repos, all_repos,
                   renderVars, mailbox, sent, unitVars>>

ExtendAll ==
    /\ pc = "scan_loop"
    /\ j > Len(org_repos)
    /\ all_repos' = all_repos \o org_repos
    /\ i' = i + 1
    /\ pc' = "org_loop"
    /\ UNCHANGED <<envVars, token, orgs, listVars, org_repos, j, renderVars, printed,
                   mailbox, reqlog, last, sent, unitVars>>

(***************************************************************************)
(* main, lines 386-389 and generate_html_report.                           *)
(***************************************************************************)
\* generate_html_report, lines 181-298: the document before its rows
BeginRenderMutCarry(repos) ==
    /\ html' = [total |-> Str(Len(repos)), timestamp |-> Timestamp, rows |-> html.rows]
    /\ answers' = <<>>
    /\ j' = 1
BeginRender(repos) ==
    /\ html' = [total |-> Str(Len(repos)), timestamp |-> Timestamp, rows |-> <<>>]
    /\ answers' = <<>>
    /\ j' = 1

\* if all_repos: ... (the loop over the organizations has ended)
StartReportMutAlways ==
    /\ pc = "org_loop"
    /\ i > Len(orgs)
    /\ BeginRender(all_repos)
    /\ pc' = "render"
    /\ UNCHANGED <<envVars, token, orgs, i, listVars, org_repos, all_repos, printed,
                   mailbox, reqlog, last, sent, unitVars>>
StartReport ==
    /\ pc = "org_loop"
    /\ i > Len(orgs)
    /\ all_repos # <<>>
    /\ BeginRender(all_repos)
    /\ pc' = "render"
    /\ UNCHANGED <<envVars, token, orgs, i, listVars, org_repos, all_repos, printed,
                   mailbox, reqlog, last, sent, unitVars>>

NoReport ==
    /\ pc = "org_loop"
    /\ i > Len(orgs)
    /\ all_repos = <<>>
    /\ pc' = "done"
    /\ UNCHANGED <<envVars, token, orgs, i, listVars, org_repos, j, all_repos,
                   renderVars, printed, mailbox, reqlog, last, sent, unitVars>>

\* what the API answered to the requests of one row (a request that was
\* not sent has no answer)
NoAnswer == NetErr("")
RowAnswers(bresp, cresp, sresp) ==
    [branches |-> bresp,
     code |-> IF get_branches(bresp).raised THEN NoAnswer ELSE cresp,
     secret |-> IF get_branches(bresp).raised \/ check_code_scanning_status(cresp).raised
                THEN NoAnswer ELSE sresp]

\* lines 299-321: one iteration of `for repo in repos`
RenderRow ==
    /\ pc = "render"
    /\ j <= Len(all_repos)
    /\ \E bresp \in BranchResponses, cresp \in ScanResponses, sresp \in ScanResponses :
         LET row == RenderRowOf(all_repos[j], bresp, cresp, sresp) IN
         /\ reqlog' = reqlog \o RowRequests(all_repos[j], bresp, cresp)
         /\ answers' = Append(answers, RowAnswers(bresp, cresp, sresp))
         /\ last' = IF RowAnswers(bresp, cresp, sresp).secret # NoAnswer
                    THEN ScanCall("secret", all_repos[j], sresp)
                    ELSE IF RowAnswers(bresp, cresp, sresp).code # NoAnswer
                    THEN ScanCall("code", all_repos[j], cresp)
                    ELSE last
         /\ IF row.raised
            THEN MainExcept(row) /\ UNCHANGED <<html, j>>
            ELSE /\ html' = [html EXCEPT !.rows = Append(@, row.value)]
                 /\ j' = j + 1
                 /\ UNCHANGED <<pc, printed>>
    /\ UNCHANGED <<envVars, token, orgs, i, listVars, org_repos, all_repos, mailbox,
                   sent, unitVars>>

\* lines 322-329: the document is closed and returned to main
RenderReturn ==
    /\ pc = "render"
    /\ j > Len(all_repos)
    /\ pc' = "send"
    /\ UNCHANGED <<envVars, token, orgs, i, listVars, org_repos, j, all_repos,
                   renderVars, printed, mailbox, reqlog, last, sent, unitVars>>

\* line 388: fetcher.send_email_report(html_report, "schaskar.ml@gmail.com")
SendReport ==
    /\ pc = "send"
    /\ \E failing \in {SendStages[n] : n \in 1..Len(SendStages)} \cup {"none"} :
         LET r == send_email_report(failing) IN
         /\ mailbox' = IF Submitted(failing)
                       THEN Append(mailbox, [to |-> Recipient, subject |-> Subject,
                                             body |-> html])
                       ELSE mailbox
         /\ sent' = IF failing = "none" THEN "ok" ELSE "failed"
         /\ IF r.raised
            THEN MainExcept(r)
            ELSE /\ printed' = SendPrint(failing, Recipient)
                 /\ pc' = "announce"
    /\ UNCHANGED <<envVars, token, orgs, i, listVars, org_repos, j, all_repos,
                   renderVars, reqlog, last, unitVars>>

\* line 389
Announce ==
    /\ pc = "announce"
    /\ printed' = <<"Report generated and sent successfully">>
    /\ pc' = "done"
    /\ UNCHANGED <<envVars, token, orgs, i, listVars, org_repos, j, all_repos,
                   renderVars, mailbox, reqlog, last, sent, unitVars>>

Next ==
    \/ ConstructFetcher
    \/ LoadOrgs
    \/ SkipDisabled
    \/ BeginListing
    \/ ListPage
    \/ ScanRepo
    \/ ExtendAll
    \/ StartReport
    \/ NoReport
    \/ RenderRow
    \/ RenderReturn
    \/ SendReport
    \/ Announce

Spec == Init /\ [][Next]_vars

(***************************************************************************)
(* SpecScan: the two scan checks called on every class of answer.          *)
(***************************************************************************)
UnitRepos == {RepoRecord(1, 1), RepoRecord(1, 2), RepoRecord(2, 1), RepoRecord(2, 2)}

InitScan ==
    /\ pc = "scan_unit"
    /\ vault_url = VaultUrl
    /\ org_file = [exists |-> TRUE, organizations |-> <<>>]
    /\ hosted = 0
    /\ all_repos = <<>>
    /\ Fresh

\* one call of check_code_scanning_status or check_secret_scanning_status
UnitScan ==
    /\ pc = "scan_unit"
    /\ \E kind \in {"code", "secret"}, repo \in UnitRepos, resp \in AllScanResponses :
         /\ last' = ScanCall(kind, repo, resp)
         /\ reqlog' = <<RepoRequest(kind \o "-scanning/alerts", repo.full_name)>>
         /\ pc' = IF check_scan_status(kind, resp).raised THEN "raised" ELSE "scan_unit"
    /\ UNCHANGED <<envVars, token, orgs, i, listVars, org_repos, j, all_repos,
                   renderVars, printed, mailbox, sent, unitVars>>

SpecScan == InitScan /\ [][UnitScan]_vars

(***************************************************************************)
(* SpecList: get_org_repositories called for one organization, the API     *)
(* holding up to MaxPages pages of up to MaxPageLen repositories.          *)
(***************************************************************************)
InitList ==
    /\ pc = "listing"
    /\ vault_url = VaultUrl
    /\ org_file = [exists |-> TRUE,
                   organizations |-> <<[name |-> 1, has_enabled |-> TRUE, enabled |-> TRUE]>>]
    /\ hosted = MaxPages * MaxPageLen
    /\ token = "ghp_token"
    /\ orgs = org_file.organizations
    /\ i = 1
    /\ page = 1
    /\ repositories = <<>>
    /\ org_repos = <<>>
    /\ j = 0
    /\ all_repos = <<>>
    /\ html = NoHtml
    /\ printed = <<"Fetching repositories for organization: ", Str(1)>>
    /\ mailbox = <<>>
    /\ reqlog = <<>>
    /\ served = <<<<>>>>
    /\ listed = {}
    /\ last = NoCall
    /\ answers = <<>>
    /\ sent = ""
    /\ calls = 0
    /\ prev = [html |-> NoHtml, answers |-> <<>>]

SpecList == InitList /\ [][ListPage]_vars

(***************************************************************************)
(* SpecRender: generate_html_report called on a repository list, and       *)
(* called a second time on the same list when the list is short.           *)
(***************************************************************************)
RepoPool == {RepoRecord(1, 1), RepoRecord(1, 2)}

RepoLists == UNION {[1..n -> RepoPool] : n \in 1..MaxRenderRepos}

InitRender ==
    /\ pc = "render_unit"
    /\ vault_url = VaultUrl
    /\ org_file = [exists |-> TRUE, organizations |-> <<>>]
    /\ hosted = 0
    /\ all_repos \in RepoLists
    /\ Fresh

UnitRenderStart ==
    /\ pc = "render_unit"
    /\ calls = 0 \/ (calls = 1 /\ Len(all_repos) <= MaxTwiceRepos)
    /\ BeginRender(all_repos)
    /\ calls' = calls + 1
    /\ pc' = "render"
    /\ UNCHANGED <<envVars, token, orgs, i, listVars, org_repos, all_repos, printed,
                   mailbox, reqlog, last, sent, prev>>

UnitRenderReturn ==
    /\ pc = "render"
    /\ j > Len(all_repos)
    /\ prev' = IF calls = 1 THEN [html |-> html, answers |-> answers] ELSE prev
    /\ pc' = "render_unit"
    /\ UNCHANGED <<envVars, token, orgs, i, listVars, org_repos, j, all_repos,
                   renderVars, printed, mailbox, reqlog, last, sent, calls>>

NextRender ==
    \/ UnitRenderStart
    \/ RenderRow
    \/ UnitRenderReturn

SpecRender == InitRender /\ [][NextRender]_vars

(***************************************************************************)
(* Properties.                                                             *)
(***************************************************************************)
\* the row loop has rendered row n from a branch listing that raised
BranchesRaised(n) ==
    answers[n].branches.transport # "ok" \/ answers[n].branches.status >= 400

\* a call of generate_html_report has returned to its caller
Rendered == pc = "render_unit" /\ calls > 0

\* C1: when the branch listing of a repository raises, the report still has
\* exactly one row for it, with branch cell "Error fetching branches" and both
\* status texts "Error checking status"; every repository of the list gets its
\* row, in order, and generate_html_report does not raise.
C1_BranchFailureContained ==
    /\ pc # "done"
    /\ Len(html.rows) = Len(answers)
    /\ Len(html.rows) <= Len(all_repos)
    /\ \A n \in 1..Len(html.rows) :
         /\ html.rows[n].name = all_repos[n].name
         /\ html.rows[n].html_url = all_repos[n].html_url
         /\ BranchesRaised(n) =>
              /\ html.rows[n].branch_list = <<"Error fetching branches">>
              /\ html.rows[n].code_status_text = <<"Error checking status">>
              /\ html.rows[n].secret_status_text = <<"Error checking status">>
    /\ Rendered => Len(html.rows) = Len(all_repos)

\* C1 witness: a returned render of two repositories, the first one's branch
\* listing raised, the second one's row carries its branches.
C1_Witness ==
    /\ Rendered
    /\ Len(all_repos) = 2
    /\ Len(html.rows) = 2
    /\ BranchesRaised(1)
    /\ html.rows[1].branch_list = <<"Error fetching branches">>
    /\ html.rows[2].branch_list = <<"main", ", ", "dev">>

\* a request for a page of an organization's repositories was the last thing
\* sent before main ended in its except clause
ListingFailed ==
    /\ pc = "done"
    /\ reqlog # <<>>
    /\ reqlog[Len(reqlog)].endpoint = "orgs/repos"
    /\ printed # <<>>
    /\ printed[1] = "Error: "

\* C2: a failing repository listing of one organization is contained: main
\* goes on through the remaining organizations, and the repositories gathered
\* are still rendered and handed to send_email_report.
C2_ListFailureNeverAborts ==
    ListingFailed =>
        /\ i > Len(orgs)
        /\ all_repos # <<>> => sent # ""

\* the list requests sent for organization o, in order
RECURSIVE ListPagesAsked(_, _)
ListPagesAsked(log, o) ==
    IF log = <<>> THEN <<>>
    ELSE (IF Head(log).endpoint = "orgs/repos" /\ Head(log).owner = Str(o)
          THEN <<Head(log)>> ELSE <<>>) \o ListPagesAsked(Tail(log), o)

\* C3: get_org_repositories asks for pages 1, 2, 3, ... with per_page=100,
\* extends its result by every non-empty page in page order whatever the
\* page's length, and returns at the first empty page: the result is the
\* concatenation of the served pages and the requests are one more than the
\* non-empty pages.
C3_Pagination ==
    \A o \in 1..Len(orgs) :
        LET asked == ListPagesAsked(reqlog, o) IN
        /\ \A n \in 1..Len(asked) : asked[n].page = n /\ asked[n].per_page = 100
        /\ \A n \in 1..Len(served[o]) : served[o][n] # <<>>
        /\ (pc = "listing" /\ i = o) =>
              /\ repositories = Flatten(served[o])
              /\ Len(asked) = Len(served[o])
              /\ page = Len(asked) + 1
        /\ o \in listed =>
              /\ Len(asked) = Len(served[o]) + 1
              /\ (i = o /\ pc = "scan_loop") => org_repos = Flatten(served[o])

\* C3 witness: a listing that returned after three non-empty pages, the
\* second shorter than the first and the third.
C3_Witness ==
    /\ pc = "scan_loop"
    /\ Len(served[1]) = 3
    /\ Len(served[1][2]) < Len(served[1][1])
    /\ Len(served[1][2]) < Len(served[1][3])
    /\ Len(org_repos) = Len(served[1][1]) + Len(served[1][2]) + Len(served[1][3])
    /\ Len(reqlog) = 4

\* the organization a repository record or a rendered row belongs to
OwnerOf(html_url) == html_url[2]

\* C4: an organization entry with enabled=false contributes no repository to
\* all_repos or to the report, and no request of any kind is sent for it.
C4_DisabledOrgUntouched ==
    \A o \in 1..Len(orgs) :
        (orgs[o].has_enabled /\ ~orgs[o].enabled) =>
            /\ \A n \in 1..Len(reqlog) : reqlog[n].owner # Str(orgs[o].name)
            /\ \A n \in 1..Len(all_repos) : OwnerOf(all_repos[n].html_url) # Str(orgs[o].name)
            /\ \A n \in 1..Len(org_repos) : OwnerOf(org_repos[n].html_url) # Str(orgs[o].name)
            /\ \A n \in 1..Len(html.rows) : OwnerOf(html.rows[n].html_url) # Str(orgs[o].name)

\* C4 witness: a finished run that mailed a report of another organization's
\* repository while the first entry was disabled.
C4_Witness ==
    /\ pc = "done"
    /\ Len(orgs) = 2
    /\ orgs[1].has_enabled /\ ~orgs[1].enabled
    /\ Len(all_repos) = 1
    /\ mailbox # <<>>

\* a scan check was called
ScanCalled == last.kind # ""

\* the answer was a response with a success status
Success(resp) == resp.transport = "ok" /\ resp.status >= 200 /\ resp.status < 300

\* the answer is a failure of the request: no response, or a status that is
\* neither success nor 404
RequestFailed(resp) ==
    resp.transport # "ok" \/ (~Success(resp) /\ resp.status # 404)

KindTitle(kind) == IF kind = "code" THEN "Code" ELSE "Secret"

C6_NotFoundIsDisabled ==
    (ScanCalled /\ last.resp.transport = "ok" /\ last.resp.status = 404) =>
        /\ ~last.out.raised
        /\ last.out.value =
             ScanStatus(FALSE, 0, <<KindTitle(last.kind), " scanning is not enabled">>)

\* C6 witness: the code scanning check answered 404.
C6_Witness ==
    /\ ScanCalled
    /\ last.kind = "code"
    /\ last.resp.status = 404
    /\ last.out.value.message = <<"Code", " scanning is not enabled">>

\* C7: a success answer with N alerts yields enabled=true and
\* alerts_count=N; enabled=true only comes with the number of alerts of a
\* success answer, and enabled=false only with alerts_count=0.
C7_AlertsCounted ==
    ScanCalled =>
        /\ ~last.out.raised
        /\ Success(last.resp) =>
             /\ last.out.value.enabled
             /\ last.out.value.alerts_count = Len(last.resp.body)
        /\ last.out.value.enabled =>
             /\ Success(last.resp)
             /\ last.out.value.alerts_count = Len(last.resp.body)
        /\ ~last.out.value.enabled => last.out.value.alerts_count = 0

\* C7 witness: a success answer with no alert, reported as enabled.
C7_Witness ==
    /\ ScanCalled
    /\ Success(last.resp)
    /\ last.resp.body = <<>>
    /\ last.out.value.enabled
    /\ last.out.value.alerts_count = 0

\* C8: whatever step of send_email_report fails, it returns to main, which
\* prints its closing line and ends as after a delivery: main's except clause
\* is not reached.
C8_SendBestEffort ==
    sent # "" =>
        /\ pc \in {"announce", "done"}
        /\ (pc = "announce" /\ sent = "failed") => printed[1] = "Failed to send email: "
        /\ pc = "done" => printed = <<"Report generated and sent successfully">>

\* C8 witness: a finished run whose mail was not submitted.
C8_Witness ==
    /\ pc = "done"
    /\ sent = "failed"
    /\ mailbox = <<>>
    /\ printed = <<"Report generated and sent successfully">>

\* the badge of a rendered status agrees with the answer a for its check
BadgeAgrees(class, text, a) ==
    /\ class = "badge-green" <=> (a # NoAnswer /\ Success(a))
    /\ class = "badge-red" <=> (a # NoAnswer /\ a.transport = "ok" /\ a.status = 404)
    /\ class = "badge-gray" <=> text[1] \in {"Error checking ", "Error checking status"}
    /\ (a # NoAnswer /\ RequestFailed(a)) => class # "badge-red"

\* C9: in every row and for both kinds the badge is green exactly when the
\* status is enabled, red exactly when the endpoint answered 404, gray exactly
\* when an "Error ..." text is shown; a failed check is never red.
C9_BadgeColours ==
    \A n \in 1..Len(html.rows) :
        /\ BadgeAgrees(html.rows[n].code_status_class, html.rows[n].code_status_text,
                       answers[n].code)
        /\ BadgeAgrees(html.rows[n].secret_status_class, html.rows[n].secret_status_text,
                       answers[n].secret)

\* the number of requests the row loop sent for the rows of `ans`
RECURSIVE RequestsOf(_)
RequestsOf(ans) ==
    IF ans = <<>> THEN 0
    ELSE 1 + (IF Head(ans).code # NoAnswer THEN 1 ELSE 0)
           + (IF Head(ans).secret # NoAnswer THEN 1 ELSE 0)
           + RequestsOf(Tail(ans))

\* both calls of generate_html_report on the list have returned
RenderedTwice == pc = "render_unit" /\ calls = 2

SecretFailureShown(name) ==
    /\ Len(printed) >= 3
    /\ printed[2] = "Failed to retrieve secret "
    /\ printed[3] = name

AnySecretFailureShown ==
    \E name \in {"github-token", "email-user", "email-password"} :
        SecretFailureShown(name)

Announced == printed = <<"Report generated and sent successfully">>

\* C11: without a github-token no request is sent to the hosting API and no
\* mail is submitted; once resolving a needed secret (github-token, email-user,
\* email-password) has failed, the run is over: no request and no mail
\* submission follows, and it does not go on to announce that the report was
\* generated and sent.
C11_SecretFailureFatal ==
    /\ [](token = "" => (reqlog = <<>> /\ mailbox = <<>>))
    /\ [][AnySecretFailureShown =>
            (reqlog' = reqlog /\ mailbox' = mailbox /\ ~Announced')]_vars

\* GitHubRepoFetcher() did not return: no vault URL, or no usable github-token
ConstructFailed == pc # "construct" /\ token = ""

\* what holds in every state of a run, for C11 as amended
C11_FatalState ==
    /\ (vault_url = "" /\ pc # "construct") => ConstructFailed
    /\ ConstructFailed =>
         /\ pc = "done"
         /\ printed # <<>>
         /\ printed[1] = "Error: "
         /\ reqlog = <<>>
         /\ mailbox = <<>>
         /\ sent = ""
    /\ (SecretFailureShown("email-user") \/ SecretFailureShown("email-password")) =>
         /\ pc = "announce"
         /\ printed[1] = "Failed to send email: "
         /\ mailbox = <<>>

\* what holds of every step of a run, for C11 as amended
C11_FatalStep ==
    AnySecretFailureShown => (reqlog' = reqlog /\ mailbox' = mailbox /\ pc' = "done")

\* C11 as amended: a missing vault URL and a failed or empty github-token are
\* fatal: main prints "Error: ..." and ends with no request sent to the hosting
\* API and no mail submitted.  A failed email-user or email-password is not
\* fatal: send_email_report prints "Failed to send email: ...", no mail is
\* submitted and no request follows, and main then ends after announcing the
\* report.
C11_ConfigFailures ==
    /\ []C11_FatalState
    /\ [][C11_FatalStep]_vars

\* C11 witness: a run that ended because the github-token could not be
\* resolved, the vault URL being set.
C11_Witness ==
    /\ pc = "done"
    /\ vault_url # ""
    /\ SecretFailureShown("github-token")
    /\ printed[1] = "Error: "
    /\ reqlog = <<>>
    /\ mailbox = <<>>

\* the branch-listing requests sent so far
BranchRequests == {n \in 1..Len(reqlog) : reqlog[n].endpoint = "branches"}

\* generate_html_report or send_email_report has been entered
ReportStarted ==
    \/ pc \in {"render", "send", "announce"}
    \/ html # NoHtml
    \/ sent # ""
    \/ mailbox # <<>>
    \/ BranchRequests # {}

\* C12: a report is rendered and mailed at most once per run, only after the
\* listing of every enabled organization has returned and only when all_repos
\* is non-empty; a run that gathers no repository renders nothing, sends no
\* mail and sends no branch-listing request.
C12_ReportOnceIfAny ==
    /\ Len(mailbox) <= 1
    /\ Cardinality(BranchRequests) = Len(answers)
    /\ Cardinality(BranchRequests) <= Len(all_repos)
    /\ ReportStarted =>
         /\ all_repos # <<>>
         /\ i > Len(orgs)
         /\ \A o \in 1..Len(orgs) :
              (~orgs[o].has_enabled \/ orgs[o].enabled) => o \in listed
    /\ (pc = "done" /\ all_repos = <<>>) =>
         /\ html = NoHtml
         /\ mailbox = <<>>
         /\ sent = ""
         /\ BranchRequests = {}
    /\ mailbox # <<>> => (mailbox[1].body = html /\ Len(html.rows) = Len(all_repos))

\* C12 witness: a finished run over two enabled organizations, both listed,
\* that mailed its one report.
C12_Witness ==
    /\ pc = "done"
    /\ Len(orgs) = 2
    /\ listed = {1, 2}
    /\ Len(all_repos) = 1
    /\ Len(mailbox) = 1
    /\ Cardinality(BranchRequests) = 1

====
